---- MODULE Spec2Model ----
(***************************************************************************)
(* A model of jupyter_server/extension/application.py: the ExtensionApp    *)
(* lifecycle (link, initialize, start, stop), the two-way exchange of      *)
(* configuration with a ServerApp, and the registration of handlers and    *)
(* static routes in the ServerApp's tornado web application.               *)
(*                                                                         *)
(* Strings that are URLs are sequences of tokens: "/" is a token of its    *)
(* own and every other token is free of slashes, so "/srv/bar" is          *)
(* <<"/", "srv", "/", "bar">>.                                             *)
(***************************************************************************)
EXTENDS Integers, Sequences, FiniteSets, TLC

VARIABLES
    cls,        \* the ExtensionApp subclass of this run (class attributes, hooks)
    exts,       \* the ExtensionApp instances constructed so far, by identity
    servers,    \* the ServerApp objects, each with its web application
    singleton,  \* ServerApp._instance, the singleton ServerApp.instance() returns
    config_file,\* what the config file jupyter_{name}_config on disk holds
    ncalls,     \* how many calls have been made
    last,       \* the call made by the last step and how it ended
    loaded      \* per host: what _load_jupyter_server_extension returned since
                \* the extension manager last changed that host's registry

vars == <<cls, exts, servers, singleton, config_file, ncalls, last, loaded>>

-----------------------------------------------------------------------------
(* Bounds *)

MaxInst == 2        \* ExtensionApp instances constructed in one run
MaxCalls == 4       \* calls made on the classes and instances in one run

-----------------------------------------------------------------------------
(* Values *)

None == "None"
NoError == "NoError"
Unset == <<"<unset>">>

Hosts == {"h1", "h2"}

\* handlers that subclass ExtensionHandlerMixin
ExtensionHandlerMixin == {"HandlerX"}

EmptyDict == <<>>

\* dict.update / Config.merge: keys of source overwrite, others are kept
Merge(target, source) ==
    [k \in DOMAIN target \cup DOMAIN source |->
        IF k \in DOMAIN source THEN source[k] ELSE target[k]]

\* the traits of the extension that configuration can set (tag config=True)
ExtKeys == {"static_paths", "static_url_prefix", "template_paths"}

-----------------------------------------------------------------------------
(* jupyter_server.utils.url_path_join on token sequences *)

RECURSIVE lstrip(_)
lstrip(s) == IF s # <<>> /\ Head(s) = "/" THEN lstrip(Tail(s)) ELSE s

RECURSIVE rstrip(_)
rstrip(s) ==
    IF s # <<>> /\ s[Len(s)] = "/" THEN rstrip(SubSeq(s, 1, Len(s) - 1)) ELSE s

strip(s) == rstrip(lstrip(s))

url_path_join(a, b) ==
    LET initial == a # <<>> /\ Head(a) = "/"
        final   == b # <<>> /\ b[Len(b)] = "/"
        sa      == strip(a)
        sb      == strip(b)
        joined  == IF sa = <<>> THEN sb
                   ELSE IF sb = <<>> THEN sa
                   ELSE sa \o <<"/">> \o sb
        r1      == IF initial THEN <<"/">> \o joined ELSE joined
        r2      == IF final THEN r1 \o <<"/">> ELSE r1
    IN  IF r2 = <<"/", "/">> THEN <<"/">> ELSE r2

-----------------------------------------------------------------------------
(* The subclasses of ExtensionApp a run may be about.  A class fixes the   *)
(* class attributes and what the overridable hooks do.                     *)

Classes == {
    [ name             |-> "foo",
      static_paths     |-> <<"/assets">>,
      own_traits       |-> {"static_paths"},
      jinja            |-> FALSE,
      routes           |-> << <<(<<"/", "bar">>), "HandlerX">> >>,
      settings_hook    |-> "pass",
      handlers_hook    |-> "extend",
      templates_hook   |-> "pass",
      package          |-> "foopkg",
      extension_url    |-> <<"/">>,
      serverapp_config |-> EmptyDict,
      subcommands      |-> {} ],
    [ name             |-> "foo",
      static_paths     |-> <<>>,
      own_traits       |-> {},
      jinja            |-> FALSE,
      routes           |-> << <<(<<"/", "bar">>), "HandlerX", [name |-> "other"]>>,
                              <<(<<"baz">>), "PlainHandler", [x |-> "1"]>> >>,
      settings_hook    |-> "update",
      handlers_hook    |-> "extend",
      templates_hook   |-> "pass",
      package          |-> "foopkg",
      extension_url    |-> <<"/", "foo">>,
      serverapp_config |-> ("ServerApp.default_url" :> <<"/", "lab">>),
      subcommands      |-> {<<"list">>} ],
    [ name             |-> "bar",
      static_paths     |-> <<"/assets", "/more">>,
      own_traits       |-> {"static_paths", "static_url_prefix"},
      jinja            |-> TRUE,
      routes           |-> << <<(<<"/", "baz">>), "PlainHandler">>,
                              <<(<<"/", "bar", "/">>), "HandlerX", [x |-> "1"]>> >>,
      settings_hook    |-> "pass",
      handlers_hook    |-> "extend",
      templates_hook   |-> "pass",
      package          |-> "barpkg",
      extension_url    |-> <<"/", "bar">>,
      serverapp_config |-> ("ServerApp.jpserver_extensions" :> ("otherpkg" :> TRUE)),
      subcommands      |-> {} ]
}

\* subclasses whose initialize fails: a route declared without a handler,
\* and a hook that raises
FailingClasses == {
    [ name             |-> "foo",
      static_paths     |-> <<"/assets">>,
      own_traits       |-> {"static_paths"},
      jinja            |-> FALSE,
      routes           |-> << <<(<<"/", "bar">>), "HandlerX">>, <<(<<"/", "broken">>)>> >>,
      settings_hook    |-> "pass",
      handlers_hook    |-> "extend",
      templates_hook   |-> "pass",
      package          |-> "foopkg",
      extension_url    |-> <<"/">>,
      serverapp_config |-> EmptyDict,
      subcommands      |-> {} ],
    [ name             |-> "foo",
      static_paths     |-> <<"/assets">>,
      own_traits       |-> {"static_paths"},
      jinja            |-> FALSE,
      routes           |-> << <<(<<"/", "bar">>), "HandlerX">> >>,
      settings_hook    |-> "raise",
      handlers_hook    |-> "extend",
      templates_hook   |-> "pass",
      package          |-> "foopkg",
      extension_url    |-> <<"/">>,
      serverapp_config |-> EmptyDict,
      subcommands      |-> {} ],
    [ name             |-> "foo",
      static_paths     |-> <<"/assets">>,
      own_traits       |-> {"static_paths"},
      jinja            |-> FALSE,
      routes           |-> << <<(<<"/", "bar">>), "HandlerX">> >>,
      settings_hook    |-> "update",
      handlers_hook    |-> "raise",
      templates_hook   |-> "pass",
      package          |-> "foopkg",
      extension_url    |-> <<"/">>,
      serverapp_config |-> EmptyDict,
      subcommands      |-> {} ],
    [ name             |-> "bar",
      static_paths     |-> <<>>,
      own_traits       |-> {},
      jinja            |-> TRUE,
      routes           |-> << <<(<<"/", "bar">>), "HandlerX">> >>,
      settings_hook    |-> "pass",
      handlers_hook    |-> "extend",
      templates_hook   |-> "raise",
      package          |-> "barpkg",
      extension_url    |-> <<"/">>,
      serverapp_config |-> EmptyDict,
      subcommands      |-> {} ]
}

\* layers of configuration a ServerApp holds before any extension is linked
HostConfigs == {
    EmptyDict,
    "static_paths" :> <<"/hostdir">>,
    ("static_url_prefix" :> <<"/", "custom", "/">>) @@ ("ServerApp.port" :> 8888)
}

\* layers an extension's own config file jupyter_{name}_config may hold
FileConfigs == {
    EmptyDict,
    ("static_paths" :> <<"/filedir">>) @@ ("template_paths" :> <<"/tpl">>)
        @@ ("ServerApp.port" :> 9999)
}

\* ServerApp.extra_args: the residual command-line arguments; an argument
\* --Class.trait=value is [key, value], a positional one has key ""
ExtraArgs == {
    <<>>,
    << [key |-> "", value |-> <<"notebook.ipynb">>],
       [key |-> "static_paths", value |-> <<>>],
       [key |-> "static_paths", value |-> <<"/clidir">>] >>
}

BaseUrls == [h1 |-> <<"/">>, h2 |-> <<"/", "srv", "/">>]

\* the command lines launch_instance is given; a flag is [key, value] with the
\* flag as key, "--" included
LaunchArgvs == {
    <<>>,
    << [key |-> "--help", value |-> <<>>] >>,
    << [key |-> "static_paths", value |-> <<"/clidir">>],
       [key |-> "--help", value |-> <<>>] >>,
    << [key |-> "--", value |-> <<>>],
       [key |-> "--help", value |-> <<>>] >>,
    << [key |-> "", value |-> <<"list">>],
       [key |-> "--help", value |-> <<>>] >>,
    << [key |-> "-V", value |-> <<>>] >>,
    << [key |-> "--generate-config", value |-> <<>>] >>,
    << [key |-> "", value |-> <<"notebook.ipynb">>],
       [key |-> "static_paths", value |-> <<"/clidir">>],
       [key |-> "--", value |-> <<>>],
       [key |-> "template_paths", value |-> <<"/tpl">>] >>
}

\* the arguments that match ^\w(\-?\w)*$
Words == {<<"list">>}

\* the ServerApp that ServerApp.instance() constructs
LaunchHost == "h1"

-----------------------------------------------------------------------------
(* Initial state: the ServerApps are initialized, no ExtensionApp exists *)

NewServerApp(h, config, extra_args) ==
    [ base_url         |-> BaseUrls[h],
      config           |-> config,
      extra_args       |-> extra_args,
      settings         |-> ("base_url" :> BaseUrls[h])
                            @@ ("static_handler_class" :> "FileFindHandler"),
      handlers         |-> <<>>,
      extension_points |-> EmptyDict,
      running          |-> FALSE,
      constructed      |-> TRUE,
      initialized      |-> TRUE,
      stanza           |-> EmptyDict,
      _starter_app_name |-> None ]

\* a ServerApp that has not been constructed
NoServerApp(h) ==
    [NewServerApp(h, EmptyDict, <<>>) EXCEPT !.constructed = FALSE,
                                            !.initialized = FALSE]

\* a class whose initialize fails is run against the plain deployment only
Init ==
    /\ \/ /\ cls \in Classes
          /\ \E c \in HostConfigs, a \in ExtraArgs :
                servers = [h \in Hosts |-> IF h = "h1" THEN NewServerApp(h, c, a)
                                           ELSE NewServerApp(h, EmptyDict, <<>>)]
          /\ config_file \in FileConfigs
       \/ /\ cls \in FailingClasses
          /\ servers = [h \in Hosts |-> NewServerApp(h, EmptyDict, <<>>)]
          /\ config_file = EmptyDict
    /\ exts = <<>>
    /\ ncalls = 0
    /\ singleton = None
    /\ last = [op |-> "init", inst |-> 0, host |-> None, err |-> NoError]
    /\ loaded = [h \in Hosts |-> {}]

\* the state in which launch_instance is called: a process in which no
\* ServerApp exists
LaunchInit ==
    /\ \/ cls \in Classes /\ config_file \in FileConfigs
       \/ cls \in FailingClasses /\ config_file = EmptyDict
    /\ servers = [h \in Hosts |-> NoServerApp(h)]
    /\ exts = <<>>
    /\ ncalls = 0
    /\ singleton = None
    /\ last = [op |-> "init", inst |-> 0, host |-> None, err |-> NoError]
    /\ loaded = [h \in Hosts |-> {}]

-----------------------------------------------------------------------------
(* The world an operation works on, and exceptions.  An operation maps a   *)
(* world to a world; once err is set the rest of the operation is skipped, *)
(* and what was mutated before the raise stays mutated.                    *)

World == [exts |-> exts, servers |-> servers, singleton |-> singleton, err |-> NoError]

Ok(w) == w.err = NoError

Raise(w, e) == [w EXCEPT !.err = e]

\* cls(): a fresh instance, serverapp = None (line 189), nothing configured.
\* calls and links record the hooks called on it and the hosts it was linked
\* to, prefix_host the host whose base_url the default prefix was made from,
\* stopped that a stop() of it has returned, unreadable the keys of the web
\* application's settings that self.settings lacked when a hook last ran.
NewExtensionApp ==
    [ serverapp        |-> None,
      config           |-> EmptyDict,
      prefix           |-> Unset,
      prefix_host      |-> None,
      extension_config |-> EmptyDict,
      settings         |-> EmptyDict,
      handlers         |-> <<>>,
      calls            |-> <<>>,
      links            |-> {},
      stopped          |-> FALSE,
      unreadable       |-> [initialize_settings |-> {}, initialize_templates |-> {}] ]

construct(w) == [w EXCEPT !.exts = Append(w.exts, NewExtensionApp)]

Called(w, e, what) ==
    IF Ok(w) THEN [w EXCEPT !.exts[e].calls = Append(@, what)] ELSE w

-----------------------------------------------------------------------------
(* Traits *)

static_paths(x) ==
    IF "static_paths" \in DOMAIN x.config THEN x.config["static_paths"]
    ELSE cls.static_paths

template_paths(x) ==
    IF "template_paths" \in DOMAIN x.config THEN x.config["template_paths"]
    ELSE <<>>

\* the default prefix made without the host's base_url
default_prefix_without_base_url(w, e) ==
    url_path_join(<<"/">>, <<"static", "/", cls.name, "/">>)

_default_static_url_prefix(w, e) ==
    url_path_join(w.servers[w.exts[e].serverapp].base_url,
                  <<"static", "/", cls.name, "/">>)

\* reading self.static_url_prefix: a configured value, else the dynamic
\* default, computed on the first read and kept
read_static_url_prefix(w, e) ==
    LET x == w.exts[e] IN
    IF ~Ok(w) THEN w
    ELSE IF "static_url_prefix" \in DOMAIN x.config \/ x.prefix # Unset THEN w
    ELSE IF x.serverapp = None THEN Raise(w, "AttributeError")
    ELSE [w EXCEPT !.exts[e].prefix = _default_static_url_prefix(w, e),
                   !.exts[e].prefix_host = x.serverapp]

static_url_prefix(x) ==
    IF "static_url_prefix" \in DOMAIN x.config THEN x.config["static_url_prefix"]
    ELSE x.prefix

getattr(x, t) ==
    CASE t = "static_paths"      -> static_paths(x)
      [] t = "template_paths"    -> template_paths(x)
      [] t = "static_url_prefix" -> static_url_prefix(x)

-----------------------------------------------------------------------------
(* Command line *)

\* traitlets' loader: --Class.trait=value arguments become config, the last
\* occurrence of a trait wins, positional arguments carry no config
RECURSIVE parse_command_line(_)
parse_command_line(argv) ==
    IF argv = <<>> THEN EmptyDict
    ELSE LET rest == parse_command_line(SubSeq(argv, 1, Len(argv) - 1))
             a    == argv[Len(argv)]
         IN  IF a.key = "" THEN rest
             ELSE Merge(rest, a.key :> a.value)

has(argv, flags) == \E i \in DOMAIN argv : argv[i].key \in flags

first_separator(argv) ==
    LET seps == {i \in DOMAIN argv : argv[i].key = "--"}
    IN  IF seps = {} THEN Len(argv) + 1
        ELSE CHOOSE i \in seps : \A j \in seps : i <= j

\* argv[:argv.index('--')], argv itself when it has no '--'
interpreted_argv(argv) == SubSeq(argv, 1, first_separator(argv) - 1)

is_positional(a) == a.key = ""

\* what a traitlets loader leaves in extra_args: the positional arguments
\* and everything after the first '--'
extra_args_of(argv) ==
    SelectSeq(interpreted_argv(argv), is_positional)
        \o SubSeq(argv, first_separator(argv) + 1, Len(argv))

\* _preparse_for_stopping_flags that looks at the first argument only
preparse_first_argument_only(argv) ==
    LET a == IF interpreted_argv(argv) = <<>> THEN <<>>
             ELSE <<interpreted_argv(argv)[1]>>
    IN  IF has(a, {"-h", "--help-all", "--help"}) THEN "print_help"
        ELSE IF has(a, {"--version", "-V"}) THEN "print_version"
        ELSE IF has(a, {"--generate-config"}) THEN "write_default_config"
        ELSE None

\* what the application does before app.exit(0); None when it returns
_preparse_for_stopping_flags(argv) ==
    LET a == interpreted_argv(argv)
    IN  IF has(a, {"-h", "--help-all", "--help"}) THEN "print_help"
        ELSE IF has(a, {"--version", "-V"}) THEN "print_version"
        ELSE IF has(a, {"--generate-config"}) THEN "write_default_config"
        ELSE None

\* the subcommand whose subapp is returned; None when there is none
_preparse_for_subcommand(argv) ==
    IF Len(argv) = 0 THEN None
    ELSE IF /\ cls.subcommands # {}
            /\ is_positional(argv[1])
            /\ argv[1].value \in Words
            /\ argv[1].value \in cls.subcommands
         THEN argv[1].value
         ELSE None

-----------------------------------------------------------------------------
(* _link_jupyter_server_extension *)

\* link with the config file loaded over the host's config
link_file_over_host(w, e, h) ==
    LET c1 == Merge(w.exts[e].config, w.servers[h].config)
        c2 == Merge(c1, config_file)
        c3 == Merge(c2, parse_command_line(w.servers[h].extra_args))
    IN  IF ~Ok(w) THEN w
        ELSE [w EXCEPT !.exts[e].serverapp = h,
                       !.exts[e].links = @ \cup {h},
                       !.exts[e].config = c3,
                       !.servers[h].config = Merge(@, c3)]

\* link that passes upstream what the extension held before the command line
link_upstream_early(w, e, h) ==
    LET c1 == Merge(w.exts[e].config, config_file)
        c2 == Merge(c1, w.servers[h].config)
        c3 == Merge(c2, parse_command_line(w.servers[h].extra_args))
    IN  IF ~Ok(w) THEN w
        ELSE [w EXCEPT !.exts[e].serverapp = h,
                       !.exts[e].links = @ \cup {h},
                       !.exts[e].config = c3,
                       !.servers[h].config = Merge(@, c2)]

\* link that reads static_url_prefix as soon as serverapp is set, before the
\* host's config is merged
link_reads_prefix_first(w, e, h) ==
    LET v  == read_static_url_prefix(
                  [w EXCEPT !.exts[e].serverapp = h,
                            !.exts[e].links = @ \cup {h}], e)
        c1 == Merge(v.exts[e].config, config_file)
        c2 == Merge(c1, v.servers[h].config)
        c3 == Merge(c2, parse_command_line(v.servers[h].extra_args))
    IN  IF ~Ok(w) THEN w
        ELSE [v EXCEPT !.exts[e].config = c3,
                       !.servers[h].config = Merge(@, c3)]

\* parse_command_line exits on a help, version or generate-config flag
_link_jupyter_server_extension(w, e, h) ==
    LET c1 == Merge(w.exts[e].config, config_file)          \* load_config_file
        c2 == Merge(c1, w.servers[h].config)                \* update_config(serverapp.config)
        c3 == Merge(c2, parse_command_line(w.servers[h].extra_args))
    IN  IF ~Ok(w) THEN w
        ELSE IF _preparse_for_stopping_flags(w.servers[h].extra_args) # None
        THEN Raise([w EXCEPT !.exts[e].serverapp = h,
                             !.exts[e].links = @ \cup {h},
                             !.exts[e].config = c2], "SystemExit")
        ELSE [w EXCEPT !.exts[e].serverapp = h,
                       !.exts[e].links = @ \cup {h},
                       !.exts[e].config = c3,
                       !.servers[h].config = Merge(@, c3)]  \* serverapp.update_config

-----------------------------------------------------------------------------
(* The hooks a subclass overrides *)

\* self.settings as the hook finds it, against webapp.settings
Reads(w, e, hook) ==
    LET webapp == w.servers[w.exts[e].serverapp]
    IN  IF w.exts[e].serverapp = None THEN w
        ELSE [w EXCEPT !.exts[e].unreadable[hook] =
                           DOMAIN webapp.settings \ DOMAIN w.exts[e].settings]

initialize_settings(w, e) ==
    IF ~Ok(w) THEN w
    ELSE LET v == Reads(Called(w, e, "initialize_settings"), e, "initialize_settings") IN
         CASE cls.settings_hook = "pass"   -> v
           [] cls.settings_hook = "update" ->
                [v EXCEPT !.exts[e].settings = Merge(@, "hook_key" :> "hook_value")]
           [] cls.settings_hook = "raise"  -> Raise(v, "HookError")

\* self.handlers.extend([...])
initialize_handlers(w, e) ==
    IF ~Ok(w) THEN w
    ELSE LET v == Called(w, e, "initialize_handlers") IN
         IF cls.handlers_hook = "raise" THEN Raise(v, "HookError")
         ELSE [v EXCEPT !.exts[e].handlers = @ \o cls.routes]

initialize_templates(w, e) ==
    IF ~Ok(w) THEN w
    ELSE LET v == Reads(Called(w, e, "initialize_templates"), e, "initialize_templates") IN
         IF cls.templates_hook = "raise" THEN Raise(v, "HookError") ELSE v

-----------------------------------------------------------------------------
(* initialize and its four steps.  The web application keeps what each     *)
(* add_handlers call was given as one entry of handlers, with the instance *)
(* that made the call.                                                     *)

_prepare_config(w, e) ==
    LET traits == cls.own_traits
        v      == IF "static_url_prefix" \in traits
                  THEN read_static_url_prefix(w, e) ELSE w
        x      == v.exts[e]
        extension_config == [t \in traits |-> getattr(x, t)]
    IN  IF ~Ok(v) THEN v
        ELSE [v EXCEPT !.exts[e].extension_config = extension_config,
                       !.exts[e].settings =
                           Merge(@, (cls.name \o "_config") :> extension_config)]

\* ExtensionApp._prepare_templates
_prepare_templates(w, e) ==
    LET x == w.exts[e]
        v == IF Len(template_paths(x)) > 0
             THEN [w EXCEPT !.exts[e].settings =
                      Merge(@, (cls.name \o "_template_paths") :> template_paths(x))]
             ELSE w
    IN  IF ~Ok(w) THEN w ELSE initialize_templates(v, e)

\* ExtensionAppJinjaMixin._prepare_templates
jinja_prepare_templates(w, e) ==
    LET v == initialize_templates(w, e)
        x == v.exts[e]
        s1 == IF Len(template_paths(x)) > 0
              THEN Merge(x.settings, (cls.name \o "_template_paths") :> template_paths(x))
              ELSE x.settings
        jinja2_env == [loader |-> template_paths(x)]
    IN  IF ~Ok(v) THEN v
        ELSE [v EXCEPT !.exts[e].settings =
                           Merge(s1, (cls.name \o "_jinja2_env") :> jinja2_env)]

\* _prepare_settings that calls initialize_settings before it copies the web
\* application's settings
prepare_settings_hook_first(w, e) ==
    LET h  == w.exts[e].serverapp
        v  == initialize_settings(w, e)
        x  == v.exts[e]
        s1 == Merge(x.settings, v.servers[h].settings)
        s2 == Merge(s1, ((cls.name \o "_static_paths") :> static_paths(x))
                          @@ (cls.name :> [app |-> e]))
    IN  IF ~Ok(w) THEN w
        ELSE IF ~Ok(v) THEN v
        ELSE [v EXCEPT !.exts[e].settings = s2,
                       !.servers[h].settings = Merge(@, s2)]

_prepare_settings(w, e) ==
    LET h  == w.exts[e].serverapp
        x  == w.exts[e]
        s1 == Merge(x.settings, w.servers[h].settings)
        s2 == Merge(s1, ((cls.name \o "_static_paths") :> static_paths(x))
                          @@ (cls.name :> [app |-> e]))
        v  == initialize_settings([w EXCEPT !.exts[e].settings = s2], e)
    IN  IF ~Ok(w) THEN w
        ELSE IF ~Ok(v) THEN v
        ELSE [v EXCEPT !.servers[h].settings = Merge(@, v.exts[e].settings)]

\* one declared route (pattern, handler[, kwargs]) as the rule add_handlers gets
new_handler(w, e, handler_items) ==
    LET webapp  == w.servers[w.exts[e].serverapp]
        pattern == url_path_join(webapp.settings["base_url"], handler_items[1])
        handler == handler_items[2]
        kwargs0 == IF handler \in ExtensionHandlerMixin
                   THEN "name" :> cls.name ELSE EmptyDict
        kwargs  == IF Len(handler_items) >= 3
                   THEN Merge(kwargs0, handler_items[3]) ELSE kwargs0
    IN  [pattern |-> pattern, handler |-> handler, kwargs |-> kwargs]

\* the static endpoint of the extension (lines 304-315), <<>> if it has none
static_handler(w, e) ==
    LET x      == w.exts[e]
        webapp == w.servers[x.serverapp]
    IN  IF Len(static_paths(x)) > 0
        THEN << [pattern |-> url_path_join(static_url_prefix(x), <<"(.*)">>),
                 handler |-> webapp.settings["static_handler_class"],
                 kwargs  |-> [path |-> static_paths(x)]] >>
        ELSE <<>>

\* _prepare_handlers with the static rule put before the declared routes
prepare_handlers_static_first(w, e) ==
    LET v  == initialize_handlers(w, e)
        h  == v.exts[e].serverapp
        hs == v.exts[e].handlers
        malformed == \E i \in DOMAIN hs : Len(hs[i]) < 2
        u  == IF Len(static_paths(v.exts[e])) > 0
              THEN read_static_url_prefix(v, e) ELSE v
        new_handlers == static_handler(u, e)
                            \o [i \in DOMAIN hs |-> new_handler(u, e, hs[i])]
    IN  IF ~Ok(v) THEN v
        ELSE IF malformed THEN Raise(v, "IndexError")
        ELSE IF ~Ok(u) THEN u
        ELSE [u EXCEPT !.servers[h].handlers =
                 Append(@, [host_pattern |-> ".*$", rules |-> new_handlers,
                            by |-> e])]

\* _prepare_handlers that gives each rule to add_handlers as soon as it is built
prepare_handlers_one_by_one(w, e) ==
    LET v   == initialize_handlers(w, e)
        h   == v.exts[e].serverapp
        hs  == v.exts[e].handlers
        bad == {i \in DOMAIN hs : Len(hs[i]) < 2}
        k   == IF bad = {} THEN Len(hs)
               ELSE (CHOOSE i \in bad : \A j \in bad : i <= j) - 1
        u   == IF Len(static_paths(v.exts[e])) > 0
               THEN read_static_url_prefix(v, e) ELSE v
        batches == [i \in 1..k |->
                       [host_pattern |-> ".*$", by |-> e,
                        rules |-> <<new_handler(u, e, hs[i])>>]]
        last_batch == IF static_handler(u, e) = <<>> THEN <<>>
                      ELSE << [host_pattern |-> ".*$", by |-> e,
                               rules |-> static_handler(u, e)] >>
    IN  IF ~Ok(v) THEN v
        ELSE IF ~Ok(u) THEN u
        ELSE IF bad # {}
        THEN Raise([u EXCEPT !.servers[h].handlers = @ \o batches], "IndexError")
        ELSE [u EXCEPT !.servers[h].handlers = @ \o batches \o last_batch]

_prepare_handlers(w, e) ==
    LET v  == initialize_handlers(w, e)
        h  == v.exts[e].serverapp
        hs == v.exts[e].handlers
        malformed == \E i \in DOMAIN hs : Len(hs[i]) < 2
        u  == IF Len(static_paths(v.exts[e])) > 0
              THEN read_static_url_prefix(v, e) ELSE v
        new_handlers == [i \in DOMAIN hs |-> new_handler(u, e, hs[i])]
                            \o static_handler(u, e)
    IN  IF ~Ok(v) THEN v
        ELSE IF malformed THEN Raise(v, "IndexError")
        ELSE IF ~Ok(u) THEN u
        ELSE [u EXCEPT !.servers[h].handlers =                \* add_handlers
                 Append(@, [host_pattern |-> ".*$", rules |-> new_handlers,
                            by |-> e])]

has_serverapp(x) == x.serverapp # None

\* initialize with the check for a serverapp made after the first two steps
initialize_late_check(w, e) ==
    LET w1 == _prepare_config(w, e)
        w2 == IF cls.jinja THEN jinja_prepare_templates(w1, e)
              ELSE _prepare_templates(w1, e)
    IN  IF ~Ok(w2) THEN w2
        ELSE IF ~has_serverapp(w2.exts[e])
        THEN Raise(w2, "JupyterServerExtensionException")
        ELSE _prepare_handlers(_prepare_settings(w2, e), e)

initialize(w, e) ==
    IF ~Ok(w) THEN w
    ELSE IF ~has_serverapp(w.exts[e]) THEN Raise(w, "JupyterServerExtensionException")
    ELSE LET w1 == _prepare_config(w, e)
             w2 == IF cls.jinja THEN jinja_prepare_templates(w1, e)
                   ELSE _prepare_templates(w1, e)
             w3 == _prepare_settings(w2, e)
         IN  _prepare_handlers(w3, e)

-----------------------------------------------------------------------------
(* start and stop *)

start(w, e) ==
    LET v == Called(w, e, "JupyterApp.start")
        h == v.exts[e].serverapp
    IN  IF ~Ok(w) THEN w
        ELSE IF h = None THEN Raise(v, "AttributeError")
        ELSE [v EXCEPT !.servers[h].running = TRUE]           \* serverapp.start()

stop(w, e) ==
    LET h == w.exts[e].serverapp
    IN  IF ~Ok(w) THEN w
        ELSE IF h = None THEN Raise(w, "AttributeError")
        ELSE [w EXCEPT !.servers[h].running = FALSE,          \* serverapp.stop()
                       !.singleton = None,                    \* clear_instance()
                       !.exts[e].stopped = TRUE]

-----------------------------------------------------------------------------
(* _load_jupyter_server_extension *)

\* the instance the classmethod works on: the registered one, else a new one
load_target(w, h) ==
    IF cls.name \in DOMAIN w.servers[h].extension_points
    THEN w.servers[h].extension_points[cls.name]
    ELSE Len(w.exts) + 1

_load_jupyter_server_extension(w, h) ==
    LET e == load_target(w, h)
        v == IF cls.name \in DOMAIN w.servers[h].extension_points THEN w
             ELSE _link_jupyter_server_extension(construct(w), e, h)
    IN  initialize(v, e)

-----------------------------------------------------------------------------
(* The extension manager of a ServerApp links an enabled extension: it     *)
(* constructs the instance, keeps it as extension_points[name].app, and    *)
(* calls its _link_jupyter_server_extension.                               *)

link_extension(w, h) ==
    LET e == Len(w.exts) + 1
        v == construct(w)
    IN  _link_jupyter_server_extension(
            [v EXCEPT !.servers[h].extension_points = Merge(@, cls.name :> e)], e, h)

-----------------------------------------------------------------------------
(* launch_instance *)

_jupyter_server_config ==
    LET base_config == ("ServerApp.jpserver_extensions" :> (cls.package :> TRUE))
                         @@ ("ServerApp.default_url" :> cls.extension_url)
    IN  Merge(base_config, cls.serverapp_config)

\* ServerApp.instance(argv=[], config=config): the singleton, constructed
\* with the config on the first call
ServerApp_instance(w, config) ==
    IF w.singleton # None THEN w
    ELSE [w EXCEPT !.singleton = LaunchHost,
                   !.servers[LaunchHost] =
                       [NewServerApp(LaunchHost, config, <<>>)
                           EXCEPT !.initialized = FALSE,
                                  !.stanza = config]]

\* the extension manager's view of jpserver_extensions
enabled(w) ==
    LET m == w.servers[w.singleton].config["ServerApp.jpserver_extensions"]
    IN  cls.package \in DOMAIN m /\ m[cls.package]

\* the steps of ServerApp.initialize(argv): the command line is parsed over
\* the config, an enabled extension is linked, the web application is made,
\* and the extension is loaded
ServerApp_parse_command_line(w, argv) ==
    [w EXCEPT !.servers[w.singleton].config =
                  Merge(@, parse_command_line(interpreted_argv(argv))),
              !.servers[w.singleton].extra_args = extra_args_of(argv)]

init_server_extensions(w) ==
    IF enabled(w) THEN link_extension(w, w.singleton) ELSE w

init_webapp(w) ==
    IF Ok(w) THEN [w EXCEPT !.servers[w.singleton].initialized = TRUE] ELSE w

load_server_extensions(w) ==
    IF Ok(w) /\ enabled(w) THEN _load_jupyter_server_extension(w, w.singleton) ELSE w

ServerApp_initialize(w, argv) ==
    load_server_extensions(
        init_webapp(init_server_extensions(ServerApp_parse_command_line(w, argv))))

set_starter_app_name(w) ==
    IF Ok(w) THEN [w EXCEPT !.servers[w.singleton]._starter_app_name = cls.name]
    ELSE w

initialize_server(w, argv) ==
    set_starter_app_name(
        ServerApp_initialize(ServerApp_instance(w, _jupyter_server_config), argv))

ServerApp_start(w) ==
    IF Ok(w) THEN [w EXCEPT !.servers[w.singleton].running = TRUE] ELSE w

launch_instance(w, argv) ==
    IF _preparse_for_subcommand(argv) # None
    THEN construct(w)                                         \* app.subapp.start()
    ELSE IF _preparse_for_stopping_flags(argv) # None
    THEN Raise(construct(w), "SystemExit")                    \* app.exit(0)
    ELSE ServerApp_start(initialize_server(w, argv))

-----------------------------------------------------------------------------
(* Actions.  Nothing is called in a process that has exited. *)

Commit(w, op, e, h) ==
    /\ last.err # "SystemExit"
    /\ ncalls < MaxCalls
    /\ ncalls' = ncalls + 1
    /\ exts' = w.exts
    /\ servers' = w.servers
    /\ singleton' = w.singleton
    /\ last' = [op |-> op, inst |-> e, host |-> h, err |-> w.err]

\* cls() called directly
Construct ==
    /\ Len(exts) < MaxInst
    /\ Commit(construct(World), "construct", Len(exts) + 1, None)
    /\ UNCHANGED <<cls, config_file, loaded>>

\* extension._link_jupyter_server_extension(serverapp) called directly
Link ==
    \E e \in DOMAIN exts, h \in Hosts :
        /\ servers[h].constructed
        /\ Commit(_link_jupyter_server_extension(World, e, h), "link", e, h)
        /\ UNCHANGED <<cls, config_file, loaded>>

\* the extension manager links the extension of this class on a ServerApp
ManagerLink ==
    \E h \in Hosts :
        /\ servers[h].constructed
        /\ Len(exts) < MaxInst
        /\ cls.name \notin DOMAIN servers[h].extension_points
        /\ Commit(link_extension(World, h), "link_extension", Len(exts) + 1, h)
        /\ loaded' = [loaded EXCEPT ![h] = {}]
        /\ UNCHANGED <<cls, config_file>>

\* extension.initialize() called directly
Initialize ==
    \E e \in DOMAIN exts :
        /\ Commit(initialize(World, e), "initialize", e, exts[e].serverapp)
        /\ UNCHANGED <<cls, config_file, loaded>>

\* cls._load_jupyter_server_extension(serverapp)
Load ==
    \E h \in Hosts :
        LET e == load_target(World, h) IN
        /\ servers[h].constructed
        /\ e <= MaxInst
        /\ Commit(_load_jupyter_server_extension(World, h), "load", e, h)
        /\ loaded' = [loaded EXCEPT ![h] = @ \cup {e}]
        /\ UNCHANGED <<cls, config_file>>

Start ==
    \E e \in DOMAIN exts :
        /\ Commit(start(World, e), "start", e, exts[e].serverapp)
        /\ UNCHANGED <<cls, config_file, loaded>>

Stop ==
    \E e \in DOMAIN exts :
        /\ Commit(stop(World, e), "stop", e, exts[e].serverapp)
        /\ UNCHANGED <<cls, config_file, loaded>>

Next ==
    \/ Construct
    \/ Link
    \/ ManagerLink
    \/ Initialize
    \/ Load
    \/ Start
    \/ Stop

Spec == Init /\ [][Next]_vars

\* the state a call of launch_instance leaves
Launched(w, argv) ==
    /\ ncalls' = ncalls + 1
    /\ exts' = w.exts
    /\ servers' = w.servers
    /\ singleton' = w.singleton
    /\ last' = [op |-> "launch_instance", inst |-> Len(w.exts),
                host |-> w.singleton, err |-> w.err, argv |-> argv]
    /\ loaded' = [h \in Hosts |->
                     IF h = w.singleton /\ w.servers[h].initialized /\ w.exts # <<>>
                     THEN {1} ELSE {}]

\* cls.launch_instance(argv), the entry point of the process
Launch ==
    \E argv \in LaunchArgvs :
        /\ ncalls = 0
        /\ Launched(launch_instance(World, argv), argv)
        /\ UNCHANGED <<cls, config_file>>

LaunchNext ==
    \/ Launch
    \/ Construct
    \/ Link
    \/ ManagerLink
    \/ Initialize
    \/ Load
    \/ Start
    \/ Stop

LaunchSpec == LaunchInit /\ [][LaunchNext]_vars

-----------------------------------------------------------------------------
(* Properties.  A step is told from the call it records in last'. *)

\* this step is the call op, made on instance e
CallStep(op, e) ==
    /\ ncalls' = ncalls + 1
    /\ last'.op = op
    /\ last'.inst = e

\* the rules with which instance e has the static handler class serve files
\* on host h, each as <<index of the add_handlers call, index in the call>>
StaticRules(h, e) ==
    { p \in UNION { {<<b, i>> : i \in DOMAIN servers[h].handlers[b].rules} :
                    b \in DOMAIN servers[h].handlers } :
        /\ servers[h].handlers[p[1]].by = e
        /\ servers[h].handlers[p[1]].rules[p[2]].handler
               = servers[h].settings["static_handler_class"] }

\* C1: two calls of _load_jupyter_server_extension with the same class and
\* host, on whatever the host's registry holds, return the same instance:
\* the calls made on one host while its registry stays what it is never
\* return more than one instance.
C1_LoadTwiceSameInstance ==
    \A h \in Hosts : Cardinality(loaded[h]) <= 1

\* C2: loading an extension that is registered on the host and was loaded
\* there before runs none of its hooks again and leaves the host's handlers
\* and settings as they were.
C2_ReloadLeavesHostUnchanged ==
    [][ \A h \in Hosts :
          ( /\ cls.name \in DOMAIN servers[h].extension_points
            /\ servers[h].extension_points[cls.name] \in loaded[h]
            /\ CallStep("load", servers[h].extension_points[cls.name])
            /\ last'.host = h )
          => LET e == servers[h].extension_points[cls.name] IN
             /\ exts'[e].calls = exts[e].calls
             /\ servers'[h].handlers = servers[h].handlers
             /\ servers'[h].settings = servers[h].settings ]_vars

\* C3: whatever initialize calls were made, a host's handlers hold at most
\* one static-serving rule of one extension instance.
C3_AtMostOneStaticRule ==
    \A h \in Hosts : \A e \in DOMAIN exts : Cardinality(StaticRules(h, e)) <= 1

\* C4: initialize() on an instance whose serverapp is None raises
\* JupyterServerExtensionException, calls no hook, and changes neither the
\* instance nor any ServerApp.
C4_InitializeUnlinkedRaises ==
    [][ \A e \in DOMAIN exts :
          (CallStep("initialize", e) /\ exts[e].serverapp = None)
          => /\ last'.err = "JupyterServerExtensionException"
             /\ exts' = exts
             /\ servers' = servers
             /\ singleton' = singleton ]_vars

C4_Witness ==
    /\ last.op = "initialize"
    /\ last.err = "JupyterServerExtensionException"
    /\ exts[last.inst].serverapp = None

\* C5: start() on an instance whose serverapp is None raises
\* JupyterServerExtensionException before anything else of start happens,
\* and changes no ServerApp.
C5_StartUnlinkedRaises ==
    [][ \A e \in DOMAIN exts :
          (CallStep("start", e) /\ exts[e].serverapp = None)
          => /\ last'.err = "JupyterServerExtensionException"
             /\ exts' = exts
             /\ servers' = servers ]_vars

-----------------------------------------------------------------------------
(* Configuration exchanged by link *)

\* this step links instance e to host h: a direct call, the extension
\* manager's, or the one _load_jupyter_server_extension makes for the
\* instance it has just constructed
LinkStep(e, h) ==
    /\ ncalls' = ncalls + 1
    /\ last'.inst = e
    /\ last'.host = h
    /\ last'.err = NoError
    /\ \/ last'.op \in {"link", "link_extension"}
       \/ last'.op = "load" /\ e \notin DOMAIN exts

Instances == 1..MaxInst

cli_config(h) == parse_command_line(servers[h].extra_args)

\* C6 as stated: after link every option the host's config held for the
\* extension has on the extension the value the host's config gave it,
\* whatever the config file and the residual arguments hold.
C6_HostValuesOnExtension ==
    [][ \A e \in Instances, h \in Hosts :
          LinkStep(e, h) =>
            \A k \in ExtKeys \cap DOMAIN servers[h].config :
                getattr(exts'[e], k) = servers[h].config[k] ]_vars

\* C6 amended: after link every option the host's config held for the
\* extension and the residual arguments do not set has on the extension the
\* value the host's config gave it, whatever the config file holds; an
\* option the residual arguments set has the last value they give it.
C6_HostValuesUnlessCommandLine ==
    [][ \A e \in Instances, h \in Hosts :
          LinkStep(e, h) =>
            /\ \A k \in (ExtKeys \cap DOMAIN servers[h].config) \ DOMAIN cli_config(h) :
                  getattr(exts'[e], k) = servers[h].config[k]
            /\ \A k \in ExtKeys \cap DOMAIN cli_config(h) :
                  getattr(exts'[e], k) = cli_config(h)[k] ]_vars

\* a link where the host's config and the config file both set static_paths
\* and no argument does: the extension has the host's value
C6_Witness ==
    /\ last.op \in {"link", "link_extension"}
    /\ last.err = NoError
    /\ "static_paths" \in DOMAIN config_file
    /\ servers[last.host].extra_args = <<>>
    /\ static_paths(exts[last.inst]) = <<"/hostdir">>

\* what the extension resolves for a configurable option: the configured
\* value, else the default
resolved(e, k) ==
    IF k # "static_url_prefix" \/ k \in DOMAIN exts'[e].config
    THEN getattr(exts'[e], k)
    ELSE url_path_join(servers'[exts'[e].serverapp].base_url,
                       <<"static", "/", cls.name, "/">>)

\* C7 as stated: after link every configurable option of the extension,
\* also one that only has its default, is in the host's config with the
\* extension's value.
C7_AllOptionsOnHost ==
    [][ \A e \in Instances, h \in Hosts :
          LinkStep(e, h) =>
            \A k \in ExtKeys :
                /\ k \in DOMAIN servers'[h].config
                /\ servers'[h].config[k] = resolved(e, k) ]_vars

\* C7 amended: after link every option the extension's config holds (set by
\* the config file, the host's config or the residual arguments) is in the
\* host's config with the same value, which is the value of the trait.
C7_ConfiguredOptionsOnHost ==
    [][ \A e \in Instances, h \in Hosts :
          LinkStep(e, h) =>
            \A k \in DOMAIN exts'[e].config :
                /\ k \in DOMAIN servers'[h].config
                /\ servers'[h].config[k] = exts'[e].config[k]
                /\ k \in ExtKeys => getattr(exts'[e], k) = servers'[h].config[k] ]_vars

\* a link after which the host's config holds template_paths, which only
\* the extension's config file sets
C7_Witness ==
    /\ last.op \in {"link", "link_extension", "load"}
    /\ last.err = NoError
    /\ "template_paths" \in DOMAIN servers[last.host].config
    /\ servers[last.host].config["template_paths"] = template_paths(exts[last.inst])
    /\ template_paths(exts[last.inst]) # <<>>

-----------------------------------------------------------------------------
(* Routes registered by initialize *)

\* this step is an initialize of instance e on host h that returned, called
\* directly or by _load_jupyter_server_extension
InitializeStep(e, h) ==
    /\ ncalls' = ncalls + 1
    /\ last'.op \in {"initialize", "load"}
    /\ last'.inst = e
    /\ last'.err = NoError
    /\ exts'[e].serverapp = h

\* what the last add_handlers call on host h was given
last_rules(h) == servers[h].handlers[Len(servers[h].handlers)].rules

\* base_url put before a declared pattern, the slash between them not doubled
prefixed(base_url, pattern) ==
    base_url \o (IF pattern # <<>> /\ Head(pattern) = "/" THEN Tail(pattern)
                 ELSE pattern)

\* C8: every registered rule whose handler subclasses ExtensionHandlerMixin
\* has the option name equal to the extension's name, whatever options the
\* route declares; a rule of another handler gets no option name.
C8_AwareRulesCarryName ==
    \A h \in Hosts : \A b \in DOMAIN servers[h].handlers :
        \A i \in DOMAIN servers[h].handlers[b].rules :
            LET r == servers[h].handlers[b].rules[i] IN
            IF r.handler \in ExtensionHandlerMixin
            THEN "name" \in DOMAIN r.kwargs /\ r.kwargs["name"] = cls.name
            ELSE "name" \notin DOMAIN r.kwargs

\* C9: one initialize makes one add_handlers call on the host, with one rule
\* for each of the N routes in self.handlers, in their order, the pattern
\* base_url put before the declared pattern and the handler the declared
\* one, then one static rule if the extension has static paths and none if
\* it has not; the earlier calls' rules stay and no other host is touched.
C9_OneBatchInOrder ==
    [][ \A e \in Instances, h \in Hosts :
          InitializeStep(e, h) =>
            LET old   == servers[h].handlers
                new   == servers'[h].handlers
                decl  == exts'[e].handlers
                N     == Len(decl)
                M     == Len(static_paths(exts'[e]))
                rules == new[Len(new)].rules
            IN  /\ Len(new) = Len(old) + 1
                /\ SubSeq(new, 1, Len(old)) = old
                /\ Len(rules) = N + (IF M > 0 THEN 1 ELSE 0)
                /\ \A i \in 1..N :
                      /\ rules[i].pattern = prefixed(servers[h].base_url, decl[i][1])
                      /\ rules[i].handler = decl[i][2]
                /\ M > 0 => rules[N + 1].handler
                               = servers[h].settings["static_handler_class"]
                /\ \A g \in Hosts \ {h} :
                      servers'[g].handlers = servers[g].handlers ]_vars

\* an initialize that registered two declared routes and the static rule
C9_Witness ==
    /\ last.op \in {"initialize", "load"}
    /\ last.err = NoError
    /\ Len(exts[last.inst].handlers) = 2
    /\ Len(last_rules(exts[last.inst].serverapp)) = 3
    /\ last_rules(exts[last.inst].serverapp)[3].handler = "FileFindHandler"
    /\ last_rules(exts[last.inst].serverapp)[1].pattern = <<"/", "srv", "/", "baz">>

static_pattern(base_url) == base_url \o <<"static", "/", cls.name, "/", "(.*)">>

-----------------------------------------------------------------------------
(* The lifecycle: start, stop and a second link *)

\* instance e has had a batch of rules registered on host h
RoutesRegistered(e, h) ==
    \E b \in DOMAIN servers[h].handlers : servers[h].handlers[b].by = e

\* C12: start() of an extension starts its ServerApp only when an
\* initialize of that extension has registered its routes on that ServerApp.
C12_StartOnlyAfterRoutes ==
    [][ \A e \in DOMAIN exts :
          ( /\ CallStep("start", e)
            /\ exts[e].serverapp # None
            /\ servers'[exts[e].serverapp].running )
          => RoutesRegistered(e, exts[e].serverapp) ]_vars

\* C13: once stop() of an instance has returned, a later link, initialize
\* or start of that instance changes no ServerApp: not its config, its
\* settings, its handlers, nor whether it runs.
C13_StoppedIsTerminal ==
    [][ \A e \in DOMAIN exts :
          ( /\ exts[e].stopped
            /\ \/ CallStep("link", e)
               \/ CallStep("initialize", e)
               \/ CallStep("start", e) )
          => servers' = servers ]_vars

\* C14: stop() of a started extension stops its ServerApp and leaves the
\* ServerApp's registry without an entry under the extension's name.
C14_StopReleasesRegistry ==
    [][ \A e \in DOMAIN exts :
          ( /\ CallStep("stop", e)
            /\ last'.err = NoError
            /\ \E i \in DOMAIN exts[e].calls : exts[e].calls[i] = "JupyterApp.start"
            /\ servers[exts[e].serverapp].running )
          => /\ ~servers'[exts[e].serverapp].running
             /\ cls.name \notin DOMAIN servers'[exts[e].serverapp].extension_points ]_vars

\* C15: _link_jupyter_server_extension of an extension that is linked to
\* another ServerApp raises, leaves the extension linked to the first one
\* and changes no ServerApp's config.
C15_RelinkToOtherHostRaises ==
    [][ \A e \in DOMAIN exts : \A h \in Hosts :
          ( /\ CallStep("link", e)
            /\ last'.host = h
            /\ exts[e].serverapp \notin {None, h} )
          => /\ last'.err # NoError
             /\ exts'[e].serverapp = exts[e].serverapp
             /\ servers' = servers ]_vars

-----------------------------------------------------------------------------
(* The order of the merges, of the derived default and of the hooks *)

\* the default prefix instance e had before this step
prefix_before(e) == IF e \in DOMAIN exts THEN exts[e].prefix ELSE Unset

\* C17 as stated: a link ends with the derived default static URL prefix
\* computed, and the host's config holding the prefix the extension resolved.
C17_DerivedBeforeUpstream ==
    [][ \A e \in Instances, h \in Hosts :
          (LinkStep(e, h) /\ last'.op \in {"link", "link_extension"}) =>
            /\ static_url_prefix(exts'[e]) # Unset
            /\ "static_url_prefix" \in DOMAIN servers'[h].config
            /\ servers'[h].config["static_url_prefix"] = static_url_prefix(exts'[e]) ]_vars

\* C17 amended: a link merges the host's config into the extension, then
\* the residual arguments, then passes to the host the extension's config as
\* it then stands; it does not compute the derived default prefix.  The
\* default is computed once, when initialize first reads it, so after both
\* merges of the link before; no later step changes it and the host's config
\* holds a prefix only if configuration set one.
C17_DerivedAfterBothMerges ==
    [][ /\ \A e \in Instances, h \in Hosts :
             LinkStep(e, h) =>
               /\ servers'[h].config = Merge(servers[h].config, exts'[e].config)
               /\ \A k \in DOMAIN servers[h].config \ DOMAIN cli_config(h) :
                     exts'[e].config[k] = servers[h].config[k]
               /\ last'.op \in {"link", "link_extension"}
                     => exts'[e].prefix = prefix_before(e)
               /\ exts'[e].prefix # prefix_before(e)
                     => /\ exts'[e].prefix_host = h
                        /\ "static_url_prefix" \notin DOMAIN servers'[h].config
        /\ \A e \in DOMAIN exts :
             /\ exts[e].prefix # Unset => exts'[e].prefix = exts[e].prefix
             /\ exts'[e].prefix # Unset => exts'[e].prefix_host \in exts'[e].links ]_vars

\* an initialize after a link has computed the default prefix, and the
\* host's config holds no prefix
C17_Witness ==
    /\ last.op = "initialize"
    /\ last.err = NoError
    /\ exts[last.inst].prefix # Unset
    /\ exts[last.inst].prefix_host = last.host
    /\ "static_url_prefix" \notin DOMAIN servers[last.host].config

\* the hooks called on an instance, in the order of the calls
RECURSIVE hooks(_)
hooks(calls) ==
    IF calls = <<>> THEN <<>>
    ELSE IF Head(calls) = "JupyterApp.start" THEN hooks(Tail(calls))
    ELSE <<Head(calls)>> \o hooks(Tail(calls))

HookOrder == <<"initialize_settings", "initialize_handlers", "initialize_templates">>

\* C18: the hooks called on an instance are initialize_settings, then
\* initialize_handlers, then initialize_templates, none of them twice: at
\* any time the calls so far are a prefix of that sequence.
C18_HooksOnceInOrder ==
    \A e \in DOMAIN exts :
        LET hs == hooks(exts[e].calls) IN
        /\ Len(hs) <= Len(HookOrder)
        /\ hs = SubSeq(HookOrder, 1, Len(hs))

\* C20: after an initialize that returned, the host's settings hold under
\* name_config the config this pass built from the extension's traits, under
\* name the instance and under name_static_paths its static paths.
C20_SettingsHoldCurrentValues ==
    [][ \A e \in Instances, h \in Hosts :
          InitializeStep(e, h) =>
            LET settings == servers'[h].settings IN
            /\ {cls.name, cls.name \o "_config", cls.name \o "_static_paths"}
                   \subseteq DOMAIN settings
            /\ settings[cls.name \o "_config"] = exts'[e].extension_config
            /\ settings[cls.name] = [app |-> e]
            /\ settings[cls.name \o "_static_paths"] = static_paths(exts'[e]) ]_vars

-----------------------------------------------------------------------------
(* Errors *)

\* C19: a call that raises leaves the handlers of every ServerApp exactly
\* what they were before the call, whatever it did before it raised.
C19_FailedCallRegistersNothing ==
    [][ (ncalls' = ncalls + 1 /\ last'.err # NoError)
          => \A h \in Hosts : servers'[h].handlers = servers[h].handlers ]_vars

\* an initialize that raised on a route declared without a handler, after
\* the hooks had run and the settings had reached the host
C19_Witness ==
    /\ last.op \in {"initialize", "load"}
    /\ last.err = "IndexError"
    /\ Len(exts[last.inst].handlers) >= 2
    /\ cls.name \in DOMAIN servers[last.host].settings
    /\ servers[last.host].handlers = <<>>

-----------------------------------------------------------------------------
(* launch_instance *)

\* this step is a call of launch_instance
LaunchStep ==
    /\ ncalls' = ncalls + 1
    /\ last'.op = "launch_instance"

\* C11 (as stated): whenever --help is anywhere in the arguments,
\* launch_instance constructs, initializes and starts no ServerApp and
\* touches no handlers.
C11_HelpAnywhereStops ==
    [][ (LaunchStep /\ \E i \in DOMAIN last'.argv : last'.argv[i].key = "--help")
          => servers' = servers /\ singleton' = singleton ]_vars

\* C11 (amended): whenever --help is in the arguments with no "--" before
\* it, launch_instance constructs, initializes and starts no ServerApp and
\* touches no handlers.
C11_HelpBeforeSeparatorStops ==
    [][ (/\ LaunchStep
         /\ \E i \in DOMAIN last'.argv :
               /\ last'.argv[i].key = "--help"
               /\ \A j \in 1..(i - 1) : last'.argv[j].key # "--")
          => servers' = servers /\ singleton' = singleton ]_vars

\* launch_instance was given --help after a class parameter and exited with
\* no ServerApp constructed
C11_Witness ==
    /\ last.op = "launch_instance"
    /\ Len(last.argv) = 2
    /\ last.argv[1].key = "static_paths"
    /\ last.argv[2].key = "--help"
    /\ last.err = "SystemExit"
    /\ \A h \in Hosts : ~servers[h].constructed

\* C16: the config initialize_server gives the new ServerApp has
\* jpserver_extensions map the extension's package to True, and has
\* default_url equal to extension_url unless serverapp_config sets default_url.
C16_StanzaEnablesExtension ==
    \A h \in Hosts :
        servers[h].stanza # EmptyDict =>
            LET ServerApp == servers[h].stanza
                jpserver_extensions == ServerApp["ServerApp.jpserver_extensions"]
            IN  /\ cls.package \in DOMAIN jpserver_extensions
                /\ jpserver_extensions[cls.package] = TRUE
                /\ "ServerApp.default_url" \notin DOMAIN cls.serverapp_config
                     => ServerApp["ServerApp.default_url"] = cls.extension_url

-----------------------------------------------------------------------------
(* What the hooks can read *)

\* the hook has been called on instance e
Ran(e, hook) == \E i \in DOMAIN exts[e].calls : exts[e].calls[i] = hook

====
